---- MODULE Spec2Model ----
(***************************************************************************)
(* SIA Review Pulse (src/app.py): a Streamlit script.  One run of the      *)
(* script loads the reviews table (memoised), builds the sidebar widgets,  *)
(* filters the table, aggregates the filtered rows and renders the views.  *)
(* Every change of a widget reruns the whole script.                       *)
(*                                                                         *)
(* Time is a count of slots: SlotsPerDay slots make a day, DaysPerMonth    *)
(* days make a calendar month.  Slot 0 of a day is midnight.               *)
(***************************************************************************)
EXTENDS Integers, Sequences, FiniteSets, TLC

VARIABLES
    file,               \* the CSV at DATA_PATH: [kind, rows]
    pc,                 \* "start" | "idle" | "failed" | "loaded"
    cache,              \* st.cache_data memo of load_reviews: <<>> or <<frame>>
    data,               \* the script's `data`
    start_date_input,   \* widget state: day picked as Start date
    end_date_input,     \* widget state: day picked as End date
    selected_platforms, \* widget state: Platform multiselect
    selected_types,     \* widget state: Review type multiselect
    rating_range,       \* widget state: Rating range slider <<lo, hi>>
    notice,             \* the sidebar caption "Swapped dates ..." is shown
    filtered,           \* the script's `filtered`
    total_reviews,      \* len(filtered)
    avg_rating,         \* filtered["rating"].mean(): [sum, n], n = 0 is NaN
    avg_metric,         \* text of the "Average rating" metric card
    rating_counts,      \* rows of the rating histogram frame
    trend,              \* rows of the monthly trend frame
    rendered,           \* elements the run has put on the page
    exception,          \* the uncaught exception that ended the run, or "none"
    first_pass          \* log: the first run's filter specification and subset,
                        \* and whether a later run used another specification

vars == <<file, pc, cache, data, start_date_input, end_date_input,
          selected_platforms, selected_types, rating_range, notice, filtered,
          total_reviews, avg_rating, avg_metric, rating_counts, trend,
          rendered, exception, first_pass>>

----------------------------------------------------------------------------
(* Bounds of the model *)

MaxRows == 3          \* rows of a dashboard dataset
MaxRawRows == 1       \* rows of a raw table given to load_reviews alone
MaxShareRows == 11    \* rows of a ratings-only dataset
SlotsPerDay == 2      \* instants distinguished within one day
DaysPerMonth == 2     \* days of one calendar month

----------------------------------------------------------------------------
(* Values *)

NaT == -1             \* pandas NaT: a null published_date
NaN == -1             \* pandas NaN: a null number
MISSING == -1         \* an empty numeric cell of the CSV
BAD == -2             \* a cell whose text is neither a date nor a number
NullStr == ""         \* an empty text cell (read_csv gives NaN)

Stamp(day, slot) == day * SlotsPerDay + slot
DayOf(t) == t \div SlotsPerDay
MonthOf(t) == DayOf(t) \div DaysPerMonth
FirstDayOf(month) == month * DaysPerMonth

RECURSIVE SeqSum(_)
SeqSum(s) == IF s = <<>> THEN 0 ELSE Head(s) + SeqSum(Tail(s))

SetMin(S) == CHOOSE x \in S : \A y \in S : x <= y
SetMax(S) == CHOOSE x \in S : \A y \in S : x >= y

RECURSIVE Ascending(_)
Ascending(S) == IF S = {} THEN <<>> ELSE <<SetMin(S)>> \o Ascending(S \ {SetMin(S)})

Column(frame, name) == [i \in 1..Len(frame) |-> frame[i][name]]
Values(frame, name) == {frame[i][name] : i \in 1..Len(frame)}

----------------------------------------------------------------------------
(* load_reviews *)

ToDatetime(raw) == IF raw >= 0 THEN raw ELSE NaT
ToNumeric(raw) == IF raw >= 0 THEN raw ELSE NaN
\* Mutant: the fillna(0) is left out.
FillNaSkipped(v, default) == v
FillNa(v, default) == IF v = NaN THEN default ELSE v
FillNaStr(v, default) == IF v = NullStr THEN default ELSE v

NormalizeRow(raw, i) ==
    [idx |-> i,
     published_date |-> ToDatetime(raw.published_date),
     rating |-> ToNumeric(raw.rating),
     helpful_votes |-> FillNa(ToNumeric(raw.helpful_votes), 0),
     published_platform |-> FillNaStr(raw.published_platform, "Unknown"),
     type |-> FillNaStr(raw.type, "Unknown")]

load_reviews(rows) == [i \in 1..Len(rows) |-> NormalizeRow(rows[i], i)]

ReadCsvError(f) ==
    CASE f.kind = "missing" -> "FileNotFoundError"
      [] f.kind = "empty" -> "EmptyDataError"
      [] f.kind = "malformed" -> "ParserError"
      [] OTHER -> "none"

----------------------------------------------------------------------------
(* Sidebar *)

ValidDates(frame) == Values(frame, "published_date") \ {NaT}
ValidRatings(frame) == Values(frame, "rating") \ {NaN}

min_date(frame) == SetMin(ValidDates(frame))
max_date(frame) == SetMax(ValidDates(frame))
DefaultWindowMonths == 12
default_start(frame) ==
    max_date(frame) - DefaultWindowMonths * DaysPerMonth * SlotsPerDay
start_default(frame) ==
    DayOf(IF min_date(frame) >= default_start(frame)
          THEN min_date(frame) ELSE default_start(frame))
end_default(frame) == DayOf(max_date(frame))
platforms(frame) == Values(frame, "published_platform")
review_types(frame) == Values(frame, "type")
rating_min(frame) == SetMin(ValidRatings(frame))
rating_max(frame) == SetMax(ValidRatings(frame))

----------------------------------------------------------------------------
(* Filter: lines 79-90 *)

Midnight(day) == Stamp(day, 0)

\* Mutant: the dates are used as picked.
RangeAsPicked(sd, ed) ==
    [start |-> Midnight(sd), end |-> Midnight(ed), swapped |-> Midnight(sd) > Midnight(ed)]

EffectiveRange(sd, ed) ==
    IF Midnight(sd) > Midnight(ed)
    THEN [start |-> Midnight(ed), end |-> Midnight(sd), swapped |-> TRUE]
    ELSE [start |-> Midnight(sd), end |-> Midnight(ed), swapped |-> FALSE]

\* Comparisons of a datetime column with a timestamp: NaT compares False.
DateGe(d, t) == d # NaT /\ d >= t
DateLe(d, t) == d # NaT /\ d <= t
IsIn(v, allowed) == v \in allowed
\* Mutant: a null rating passes the range test.
BetweenOrNull(r, lo, hi) == r = NaN \/ (lo <= r /\ r <= hi)
\* Series.between, inclusive on both sides: NaN compares False.
Between(r, lo, hi) == r # NaN /\ lo <= r /\ r <= hi

\* Mutant: the predicates are joined by OR.
MaskAny(row, start, end, sp, st, rr) ==
    \/ (DateGe(row.published_date, start) /\ DateLe(row.published_date, end))
    \/ IsIn(row.published_platform, sp)
    \/ IsIn(row.type, st)
    \/ Between(row.rating, rr[1], rr[2])

Mask(row, start, end, sp, st, rr) ==
    /\ DateGe(row.published_date, start)
    /\ DateLe(row.published_date, end)
    /\ IsIn(row.published_platform, sp)
    /\ IsIn(row.type, st)
    /\ Between(row.rating, rr[1], rr[2])

\* Mutant: a rerun filters the subset of the run before it.
FilterRefines(frame, previous) == IF pc = "start" THEN frame ELSE previous
\* The frame the boolean mask indexes: `data`, on every run.
FilterSource(frame, previous) == frame

FilterFrame(frame, start, end, sp, st, rr) ==
    SelectSeq(frame, LAMBDA row : Mask(row, start, end, sp, st, rr))

----------------------------------------------------------------------------
(* Aggregates: lines 92-113, 130-143, 175-181 *)

\* Series.mean skips NaN; the mean of no value is NaN (n = 0).
Mean(frame) ==
    LET known == SelectSeq(Column(frame, "rating"), LAMBDA r : r # NaN)
    IN  [sum |-> SeqSum(known), n |-> Len(known)]

TwoDigits(k) == IF k < 10 THEN "0" \o ToString(k) ELSE ToString(k)

\* f"{avg_rating:.2f}": the mean to the nearest hundredth.  (A mean lying
\* exactly between two hundredths needs a multiple of 8 rows.)
Fmt2(avg) ==
    IF avg.n = 0 THEN "nan"
    ELSE LET h == (200 * avg.sum + avg.n) \div (2 * avg.n)
         IN  ToString(h \div 100) \o "." \o TwoDigits(h % 100)

\* Mutant: the text is formatted without the test for an empty subset.
AvgMetricUnguarded(total, avg) == Fmt2(avg)
AvgMetric(total, avg) == IF total # 0 THEN Fmt2(avg) ELSE "N/A"

CountWhere(frame, name, allowed) ==
    Len(SelectSeq(frame, LAMBDA row : IsIn(row[name], allowed)))

\* groupby("rating", dropna=False).size() sorted by rating: NaN sorts last.
RatingCounts(frame) ==
    LET keys == Values(frame, "rating")
        order == Ascending(keys \ {NaN})
                    \o (IF NaN \in keys THEN <<NaN>> ELSE <<>>)
    IN  [k \in 1..Len(order) |->
            [rating |-> order[k], count |-> CountWhere(frame, "rating", {order[k]})]]

\* Mutant: a group per month that has rows, as groupby would give.
TrendOfGroups(frame) ==
    LET dated == SelectSeq(frame, LAMBDA row : row.published_date # NaT)
        order == Ascending({MonthOf(dated[i].published_date) : i \in 1..Len(dated)})
    IN  [k \in 1..Len(order) |->
            [month |-> order[k],
             count |-> Len(SelectSeq(dated,
                LAMBDA row : MonthOf(row.published_date) = order[k]))]]

\* dropna, set_index, resample("M").size(): one bin for every calendar month
\* from the month of the earliest row to the month of the latest row.
Trend(frame) ==
    LET dated == SelectSeq(frame, LAMBDA row : row.published_date # NaT)
        months == {MonthOf(dated[i].published_date) : i \in 1..Len(dated)}
    IN  IF dated = <<>> THEN <<>>
        ELSE LET lo == SetMin(months)
                 hi == SetMax(months)
             IN  [k \in 1..(hi - lo + 1) |->
                    [month |-> lo + k - 1,
                     count |-> Len(SelectSeq(dated,
                        LAMBDA row : MonthOf(row.published_date) = lo + k - 1))]]

----------------------------------------------------------------------------
(* Python float arithmetic of lines 95-104.  A float is [m, e]: the bits m,  *)
(* least significant first, times 2^e.  Every operation rounds its exact     *)
(* result to Precision significant bits, ties to the even neighbour.         *)

Precision == 53
QuotientBits == 64    \* fraction bits of a quotient before rounding

\* Without leading zeros.
Trim(b) ==
    LET ones == {i \in 1..Len(b) : b[i] = 1}
    IN  IF ones = {} THEN <<>> ELSE SubSeq(b, 1, SetMax(ones))

RECURSIVE BitsOf(_)
BitsOf(n) == IF n = 0 THEN <<>> ELSE <<n % 2>> \o BitsOf(n \div 2)

Bit(b, i) == IF i <= Len(b) THEN b[i] ELSE 0

\* Bits lo..hi of a * k + b + carry into bit lo, and the carry out of bit hi,
\* by halving the range.
RECURSIVE MulAdd(_, _, _, _, _, _)
MulAdd(a, k, b, carry, lo, hi) ==
    IF lo = hi
    THEN LET v == Bit(a, lo) * k + Bit(b, lo) + carry
         IN  [bits |-> <<v % 2>>, carry |-> v \div 2]
    ELSE LET mid == (lo + hi) \div 2
             low == MulAdd(a, k, b, carry, lo, mid)
             high == MulAdd(a, k, b, low.carry, mid + 1, hi)
         IN  [bits |-> low.bits \o high.bits, carry |-> high.carry]

Width(a, b) == IF Len(a) >= Len(b) THEN Len(a) ELSE Len(b)

AddBits(a, b) ==
    IF a = <<>> /\ b = <<>> THEN <<>>
    ELSE LET r == MulAdd(a, 1, b, 0, 1, Width(a, b)) IN r.bits \o BitsOf(r.carry)

MulBits(a, k) ==
    IF a = <<>> THEN <<>>
    ELSE LET r == MulAdd(a, k, <<>>, 0, 1, Len(a)) IN r.bits \o BitsOf(r.carry)

ShiftLeft(b, n) == [i \in 1..n |-> 0] \o b

\* -1, 0 or 1 as a < b, a = b or a > b (both without leading zeros).
CmpBits(a, b) ==
    LET differ == {i \in 1..Width(a, b) : Bit(a, i) # Bit(b, i)}
    IN  IF differ = {} THEN 0
        ELSE IF Bit(a, SetMax(differ)) < Bit(b, SetMax(differ)) THEN -1 ELSE 1

FRound(m, e) ==
    LET b == Trim(m)
        d == Len(b) - Precision
    IN  IF d <= 0 THEN [m |-> b, e |-> e]
        ELSE LET kept == SubSeq(b, d + 1, Len(b))
                 sticky == \E i \in 1..(d - 1) : b[i] = 1
                 up == b[d] = 1 /\ (sticky \/ kept[1] = 1)
             IN  [m |-> IF up THEN Trim(AddBits(kept, <<1>>)) ELSE kept,
                  e |-> e + d]

\* 2^k modulo n, by squaring.
RECURSIVE Pow2Mod(_, _)
Pow2Mod(k, n) ==
    IF k = 0 THEN 1 % n
    ELSE LET h == Pow2Mod(k \div 2, n)
         IN  (h * h * (IF k % 2 = 1 THEN 2 ELSE 1)) % n

\* r * 2^k modulo n, for r < n.
FracRem(r, n, k) == (r * Pow2Mod(k, n)) % n

\* The first k bits of the fraction r / n, for r < n, by long division.
FracBits(r, n, k) ==
    [j \in 1..k |-> IF 2 * FracRem(r, n, k - j) >= n THEN 1 ELSE 0]

FromInt(n) == [m |-> BitsOf(n), e |-> 0]

\* p / n for ints 0 <= p and 0 < n < 2^9: the quotient to QuotientBits
\* fraction bits, one more bit telling whether anything is left, rounded.
FDiv(p, n) ==
    LET rest == IF FracRem(p % n, n, QuotientBits) # 0 THEN 1 ELSE 0
    IN  FRound(<<rest>> \o FracBits(p % n, n, QuotientBits) \o BitsOf(p \div n),
               0 - (QuotientBits + 1))

FMul(x, k) == FRound(MulBits(x.m, k), x.e)

FAdd(x, y) ==
    LET e == IF x.e <= y.e THEN x.e ELSE y.e
    IN  FRound(AddBits(ShiftLeft(x.m, x.e - e), ShiftLeft(y.m, y.e - e)), e)

FCmp(x, y) ==
    LET e == IF x.e <= y.e THEN x.e ELSE y.e
    IN  CmpBits(Trim(ShiftLeft(x.m, x.e - e)), Trim(ShiftLeft(y.m, y.e - e)))

\* count / total_reviews * 100 if total_reviews else 0
Share(count, total) == IF total # 0 THEN FMul(FDiv(count, total), 100) ELSE FromInt(0)

positive_share == Share(CountWhere(filtered, "rating", {4, 5}), total_reviews)
negative_share == Share(CountWhere(filtered, "rating", {1, 2}), total_reviews)

----------------------------------------------------------------------------
(* The page *)

Header == {"title", "intro"}
Body == {"sidebar", "summary", "metrics", "rating_chart", "platform_chart",
         "trend_chart", "table", "positive_cloud", "negative_cloud"}

\* Lines 41-238 with the widgets returning sd, ed, sp, st, rr.
Render(frame, sd, ed, sp, st, rr) ==
    LET rng == EffectiveRange(sd, ed)
        f == FilterFrame(FilterSource(frame, filtered),
                         rng.start, rng.end, sp, st, rr)
    IN  /\ data' = frame
        /\ start_date_input' = sd
        /\ end_date_input' = ed
        /\ selected_platforms' = sp
        /\ selected_types' = st
        /\ rating_range' = rr
        /\ notice' = rng.swapped
        /\ filtered' = f
        /\ total_reviews' = Len(f)
        /\ avg_rating' = Mean(f)
        /\ avg_metric' = AvgMetric(Len(f), Mean(f))
        /\ rating_counts' = RatingCounts(f)
        /\ trend' = Trend(f)
        /\ rendered' = Header \cup Body
        /\ exception' = "none"
        /\ pc' = "idle"

\* Mutant: the exception is caught and the rest of the script runs.
AbortCaught(e) ==
    /\ pc' = "failed"
    /\ exception' = e
    /\ rendered' = Header \cup Body
    /\ UNCHANGED <<file, cache, data, start_date_input, end_date_input,
                   selected_platforms, selected_types, rating_range, notice,
                   filtered, total_reviews, avg_rating, avg_metric,
                   rating_counts, trend, first_pass>>

\* An exception raised by load_reviews at line 39 is not caught: the run ends.
Abort(e) ==
    /\ pc' = "failed"
    /\ exception' = e
    /\ rendered' = Header
    /\ UNCHANGED <<file, cache, data, start_date_input, end_date_input,
                   selected_platforms, selected_types, rating_range, notice,
                   filtered, total_reviews, avg_rating, avg_metric,
                   rating_counts, trend, first_pass>>

\* The first run of the script: every widget returns its default.
FirstRun ==
    /\ pc = "start"
    /\ IF ReadCsvError(file) # "none"
       THEN Abort(ReadCsvError(file))
       ELSE LET frame == load_reviews(file.rows)
                sd == start_default(frame)
                ed == end_default(frame)
                sp == platforms(frame)
                st == review_types(frame)
                rr == <<rating_min(frame), rating_max(frame)>>
            IN  /\ cache' = <<frame>>
                /\ Render(frame, sd, ed, sp, st, rr)
                /\ first_pass' = [spec |-> <<sd, ed, sp, st, rr>>,
                                  subset |-> filtered', strayed |-> FALSE]
                /\ UNCHANGED file

\* A rerun: load_reviews returns the memoised frame.
Rerun(sd, ed, sp, st, rr) ==
    /\ pc = "idle"
    /\ Render(cache[1], sd, ed, sp, st, rr)
    /\ first_pass' = [first_pass EXCEPT !.strayed =
                        @ \/ <<sd, ed, sp, st, rr>> # first_pass.spec]
    /\ UNCHANGED <<file, cache>>

DayChoices(frame) == {DayOf(t) : t \in ValidDates(frame)}
SliderChoices(frame) ==
    {rr \in ValidRatings(frame) \X ValidRatings(frame) : rr[1] <= rr[2]}

ChangeStartDate ==
    \E d \in DayChoices(data) :
        Rerun(d, end_date_input, selected_platforms, selected_types, rating_range)

ChangeEndDate ==
    \E d \in DayChoices(data) :
        Rerun(start_date_input, d, selected_platforms, selected_types, rating_range)

ChangePlatforms ==
    \E sp \in SUBSET platforms(data) :
        Rerun(start_date_input, end_date_input, sp, selected_types, rating_range)

ChangeTypes ==
    \E st \in SUBSET review_types(data) :
        Rerun(start_date_input, end_date_input, selected_platforms, st, rating_range)

ChangeRatingRange ==
    \E rr \in SliderChoices(data) :
        Rerun(start_date_input, end_date_input, selected_platforms, selected_types, rr)

\* load_reviews called on its own.
CallLoadReviews ==
    /\ pc = "start"
    /\ IF ReadCsvError(file) # "none"
       THEN /\ pc' = "failed"
            /\ exception' = ReadCsvError(file)
            /\ UNCHANGED <<cache, data>>
       ELSE /\ pc' = "loaded"
            /\ data' = load_reviews(file.rows)
            /\ cache' = <<data'>>
            /\ UNCHANGED exception
    /\ UNCHANGED <<file, start_date_input, end_date_input, selected_platforms,
                   selected_types, rating_range, notice, filtered, total_reviews,
                   avg_rating, avg_metric, rating_counts, trend, rendered,
                   first_pass>>

----------------------------------------------------------------------------
(* Input files *)

RawRow(d, r, h, p, t) ==
    [published_date |-> d, rating |-> r, helpful_votes |-> h,
     published_platform |-> p, type |-> t]

Broken == {[kind |-> k, rows |-> <<>>] : k \in {"missing", "empty", "malformed"}}
Table(rows) == [kind |-> "table", rows |-> rows]

\* Rows a dashboard dataset is drawn from.  Two rows share the first month,
\* the third month has rows at midnight and at noon of its first day, and the
\* second month has none.
Pool ==
    <<RawRow(Stamp(0, 1), 5, 2, "Web", "review"),
      RawRow(Stamp(1, 0), 1, 0, "App", "review"),
      RawRow(Stamp(1, 0), BAD, MISSING, "Web", "review"),
      RawRow(Stamp(FirstDayOf(2), 1), 4, BAD, "App", NullStr),
      RawRow(BAD, 3, 1, NullStr, "review"),
      RawRow(Stamp(FirstDayOf(2), 0), 2, 7, "Web", "review")>>

Pick(S) == LET order == Ascending(S) IN [k \in 1..Len(order) |-> Pool[order[k]]]

\* The sidebar needs a dataset minimum date and a dataset minimum rating.
Usable(rows) ==
    /\ \E i \in 1..Len(rows) : rows[i].published_date >= 0
    /\ \E i \in 1..Len(rows) : rows[i].rating >= 0

DashboardFiles ==
    {Table(Pick(S)) : S \in {T \in SUBSET (1..Len(Pool)) :
        /\ Cardinality(T) \in 1..MaxRows
        /\ Usable(Pick(T))}}

RawRows ==
    {RawRow(d, r, h, p, t) :
        d \in {Stamp(0, 1), BAD, MISSING}, r \in {5, BAD, MISSING},
        h \in {2, BAD, MISSING}, p \in {"Web", NullStr}, t \in {"review", NullStr}}

RECURSIVE SeqsUpTo(_, _)
SeqsUpTo(S, n) ==
    IF n = 0 THEN {<<>>}
    ELSE LET shorter == SeqsUpTo(S, n - 1)
         IN  shorter \cup {Append(s, x) : s \in shorter, x \in S}

RawFiles == {Table(rows) : rows \in SeqsUpTo(RawRows, MaxRawRows)}

Repeat(row, n) == [i \in 1..n |-> row]

\* Datasets of one instant (a midnight), one platform and one type: a rows
\* rated 5, b rows rated 1 and c rows rated 3.
ShareRows(a, b, c) ==
    Repeat(RawRow(Stamp(0, 0), 5, 0, "Web", "review"), a)
        \o Repeat(RawRow(Stamp(0, 0), 1, 0, "Web", "review"), b)
        \o Repeat(RawRow(Stamp(0, 0), 3, 0, "Web", "review"), c)

ShareFiles ==
    {Table(ShareRows(n[1], n[2], n[3])) :
        n \in {m \in (0..MaxShareRows) \X (0..MaxShareRows) \X (0..1) :
                    m[1] + m[2] + m[3] \in 1..MaxShareRows}}

----------------------------------------------------------------------------
(* Specifications *)

Blank(files) ==
    /\ file \in files
    /\ pc = "start"
    /\ cache = <<>>
    /\ data = <<>>
    /\ start_date_input = 0
    /\ end_date_input = 0
    /\ selected_platforms = {}
    /\ selected_types = {}
    /\ rating_range = <<0, 0>>
    /\ notice = FALSE
    /\ filtered = <<>>
    /\ total_reviews = 0
    /\ avg_rating = [sum |-> 0, n |-> 0]
    /\ avg_metric = ""
    /\ rating_counts = <<>>
    /\ trend = <<>>
    /\ rendered = {}
    /\ exception = "none"
    /\ first_pass = [spec |-> <<>>, subset |-> <<>>, strayed |-> FALSE]

Init == Blank(DashboardFiles \cup Broken)

Next ==
    \/ FirstRun
    \/ ChangeStartDate
    \/ ChangeEndDate
    \/ ChangePlatforms
    \/ ChangeTypes
    \/ ChangeRatingRange

Spec == Init /\ [][Next]_vars

InitLoad == Blank(RawFiles \cup Broken)
NextLoad == CallLoadReviews
SpecLoad == InitLoad /\ [][NextLoad]_vars

InitShares == Blank(ShareFiles)
SpecShares == InitShares /\ [][Next]_vars

----------------------------------------------------------------------------
(* Vocabulary of the properties: the rows of `data` by their index, and the  *)
(* four predicates of a filter specification stated on the widget values.    *)

Rows == 1..Len(data)
Kept == {filtered[k].idx : k \in 1..Len(filtered)}
CurrentSpec ==
    <<start_date_input, end_date_input, selected_platforms, selected_types,
      rating_range>>
LoDay == IF start_date_input <= end_date_input THEN start_date_input ELSE end_date_input
HiDay == IF start_date_input <= end_date_input THEN end_date_input ELSE start_date_input

InDateRange(i) ==
    /\ data[i].published_date # NaT
    /\ LoDay * SlotsPerDay <= data[i].published_date
    /\ data[i].published_date <= HiDay * SlotsPerDay
InPlatforms(i) == data[i].published_platform \in selected_platforms
InTypes(i) == data[i].type \in selected_types
InRatingRange(i) ==
    /\ data[i].rating # NaN
    /\ rating_range[1] <= data[i].rating
    /\ data[i].rating <= rating_range[2]

\* The subset holds rows of `data` unchanged, in order, each at most once.
Faithful ==
    /\ \A k \in 1..Len(filtered) :
        filtered[k].idx \in Rows /\ filtered[k] = data[filtered[k].idx]
    /\ \A k \in 1..(Len(filtered) - 1) : filtered[k].idx < filtered[k + 1].idx

RECURSIVE RatingSum(_)
RatingSum(S) ==
    IF S = {} THEN 0
    ELSE LET i == CHOOSE j \in S : TRUE IN data[i].rating + RatingSum(S \ {i})

----------------------------------------------------------------------------
\* C1: after every run the filtered subset is exactly the set of rows of the
\* dataset that satisfy all four predicates at once (date within the
\* effective range, platform selected, type selected, rating within the
\* slider range); it equals the intersection of the four subsets each
\* predicate gives alone, and it holds no row with a null rating or a null
\* published_date.
C1_Conjunction ==
    pc = "idle" =>
        /\ Faithful
        /\ Kept = {i \in Rows :
                    InDateRange(i) /\ InPlatforms(i) /\ InTypes(i) /\ InRatingRange(i)}
        /\ Kept = {i \in Rows : InDateRange(i)} \cap {i \in Rows : InPlatforms(i)}
                    \cap {i \in Rows : InTypes(i)} \cap {i \in Rows : InRatingRange(i)}
        /\ \A i \in Kept : data[i].rating # NaN /\ data[i].published_date # NaT

\* A run that kept a row and dropped others: one for its null rating alone,
\* one for a null date.
C1_Witness ==
    /\ pc = "idle"
    /\ Kept # {}
    /\ \E i \in Rows \ Kept :
        data[i].rating = NaN /\ InDateRange(i) /\ InPlatforms(i) /\ InTypes(i)
    /\ \E i \in Rows \ Kept : data[i].published_date = NaT

\* C2 (as claimed): every row published on the selected start day or on the
\* selected end day, at any time of that day, that passes the platform, type
\* and rating predicates is in the filtered subset.
C2_BothDaysInclusive ==
    pc = "idle" =>
        \A i \in Rows :
            ( /\ data[i].published_date # NaT
              /\ DayOf(data[i].published_date) \in {start_date_input, end_date_input}
              /\ InPlatforms(i) /\ InTypes(i) /\ InRatingRange(i) )
            => i \in Kept

\* C3: the caption is shown exactly when the picked start day is after the
\* picked end day; the range used has start <= end; and the subset is the one
\* the corrected range (earlier day, later day) gives, every row once.
C3_SwapRestoresRange ==
    pc = "idle" =>
        /\ notice = (start_date_input > end_date_input)
        /\ EffectiveRange(start_date_input, end_date_input).start
            <= EffectiveRange(start_date_input, end_date_input).end
        /\ ~notice =>
            /\ EffectiveRange(start_date_input, end_date_input).start
                = start_date_input * SlotsPerDay
            /\ EffectiveRange(start_date_input, end_date_input).end
                = end_date_input * SlotsPerDay
        /\ Faithful
        /\ Kept = {i \in Rows :
                    InDateRange(i) /\ InPlatforms(i) /\ InTypes(i) /\ InRatingRange(i)}

\* A run with start after end that still kept rows.
C3_Witness ==
    /\ pc = "idle"
    /\ start_date_input > end_date_input
    /\ notice
    /\ Cardinality(Kept) >= 2

\* The 3-row dataset of the scenario, every row inside the date range and
\* every platform and type selected, the slider on [1, 5].
Scenario ==
    /\ pc = "idle"
    /\ Column(data, "rating") = <<5, 1, NaN>>
    /\ Column(data, "published_platform") = <<"Web", "App", "Web">>
    /\ \A i \in Rows : InDateRange(i) /\ InPlatforms(i) /\ InTypes(i)
    /\ rating_range = <<1, 5>>

FullSlider == rating_range = <<rating_min(data), rating_max(data)>>

\* C4 (as claimed): a row with a null rating that passes the date, platform
\* and type predicates is kept when the slider covers the whole rating
\* domain, and has a null bucket in the histogram; the scenario gives
\* total_count = 3.
C4_NullRatingKept ==
    pc = "idle" =>
        /\ \A i \in Rows :
            ( data[i].rating = NaN /\ InDateRange(i) /\ InPlatforms(i)
              /\ InTypes(i) /\ FullSlider )
            => /\ i \in Kept
               /\ \E k \in 1..Len(rating_counts) : rating_counts[k].rating = NaN
        /\ Scenario => total_reviews = 3

\* C4 (amended): no filtered row has a null rating, whatever the slider, so
\* total_reviews counts only rows with a rating and the histogram has no null
\* bucket; in the scenario total_count = 2, average_rating = 3.0,
\* positive_share = negative_share = 50 and the histogram is {1:1, 5:1}.
C4_NullRatingDropped ==
    pc = "idle" =>
        /\ \A k \in 1..Len(filtered) : filtered[k].rating # NaN
        /\ \A k \in 1..Len(rating_counts) : rating_counts[k].rating # NaN
        /\ total_reviews = Cardinality({i \in Rows :
                /\ data[i].rating # NaN
                /\ InDateRange(i) /\ InPlatforms(i) /\ InTypes(i) /\ InRatingRange(i)})
        /\ Scenario =>
            /\ total_reviews = 2
            /\ avg_rating = [sum |-> 6, n |-> 2]
            /\ avg_metric = "3.00"
            /\ FCmp(positive_share, FromInt(50)) = 0
            /\ FCmp(negative_share, FromInt(50)) = 0
            /\ rating_counts = <<[rating |-> 1, count |-> 1], [rating |-> 5, count |-> 1]>>

C4_Witness == Scenario /\ total_reviews = 2

\* Months (by number) that have at least one filtered row.
MonthsWithRows == {MonthOf(filtered[k].published_date) : k \in 1..Len(filtered)}
RowsInMonth(m) ==
    Cardinality({i \in Kept : MonthOf(data[i].published_date) = m})

\* C5 (as claimed): the trend has one entry per month with at least one
\* filtered row and none for a month without rows, in chronological order,
\* each entry counting the filtered rows of its month.
C5_NoGapMonths ==
    pc = "idle" =>
        /\ {trend[k].month : k \in 1..Len(trend)} = MonthsWithRows
        /\ \A k \in 1..Len(trend) : trend[k].count = RowsInMonth(trend[k].month)
        /\ \A k \in 1..(Len(trend) - 1) : trend[k].month < trend[k + 1].month

\* C5 (amended): the trend has exactly one entry for every calendar month
\* from the earliest to the latest month with a filtered row, in
\* chronological order; each entry counts the filtered rows of its month, so
\* a month without rows between two months with rows has an entry with
\* count 0; with no filtered row the trend is empty.
C5_GapMonthsAreZero ==
    pc = "idle" =>
        /\ MonthsWithRows = {} => trend = <<>>
        /\ MonthsWithRows # {} =>
            {trend[k].month : k \in 1..Len(trend)}
                = SetMin(MonthsWithRows)..SetMax(MonthsWithRows)
        /\ \A k \in 1..Len(trend) : trend[k].count = RowsInMonth(trend[k].month)
        /\ \A k \in 1..(Len(trend) - 1) : trend[k].month + 1 = trend[k + 1].month

\* A trend with an empty month between two months that have rows.
C5_Witness ==
    /\ pc = "idle"
    /\ \E k \in 2..(Len(trend) - 1) : trend[k].count = 0
    /\ \E k \in 1..Len(trend) : trend[k].count >= 1

\* C6 (as claimed): a failed load ends with a DataLoadError and nothing of
\* the page body is rendered.
C6_DataLoadError ==
    (ReadCsvError(file) # "none" /\ pc # "start") =>
        /\ pc = "failed"
        /\ exception = "DataLoadError"
        /\ rendered \cap Body = {}

\* C6 (amended): when the file is missing or cannot be parsed, load_reviews
\* fails with the exception read_csv raises (FileNotFoundError,
\* EmptyDataError or ParserError; there is no DataLoadError), nothing catches
\* it, and the run ends there: only the title and the introduction, written
\* before the load, are on the page.
C6_LoadFailureEndsRun ==
    /\ (ReadCsvError(file) # "none" /\ pc # "start") =>
        /\ pc = "failed"
        /\ exception = ReadCsvError(file)
        /\ exception \in {"FileNotFoundError", "EmptyDataError", "ParserError"}
        /\ rendered \cap Body = {}
        /\ rendered = Header
        /\ cache = <<>>
    /\ pc = "failed" => ReadCsvError(file) # "none"

C6_Witness == pc = "failed" /\ file.kind = "malformed" /\ exception = "ParserError"

\* C7: the average is the arithmetic mean of the non-null ratings of the
\* filtered rows; the metric card reads "N/A" exactly when the subset is
\* empty; no non-empty subset has an undefined (NaN) average.
C7_AverageIsMean ==
    pc = "idle" =>
        /\ avg_rating.n = Cardinality({i \in Kept : data[i].rating # NaN})
        /\ avg_rating.sum = RatingSum({i \in Kept : data[i].rating # NaN})
        /\ (avg_metric = "N/A") = (filtered = <<>>)
        /\ filtered # <<>> => avg_rating.n > 0 /\ avg_metric # "nan"
        /\ filtered # <<>> => avg_metric = Fmt2(avg_rating)

\* A subset of several rows whose mean is no whole number.
C7_Witness ==
    /\ pc = "idle"
    /\ Len(filtered) >= 2
    /\ avg_rating.n >= 2
    /\ avg_rating.sum % avg_rating.n # 0

\* C8 (as claimed): with no filtered row both shares are exactly 0, and with
\* at least one filtered row positive_share + negative_share <= 100.
C8_SharesAtMost100 ==
    pc = "idle" =>
        /\ total_reviews = 0 =>
            /\ FCmp(positive_share, FromInt(0)) = 0
            /\ FCmp(negative_share, FromInt(0)) = 0
        /\ total_reviews > 0 =>
            FCmp(FAdd(positive_share, negative_share), FromInt(100)) <= 0

\* C9: a rerun never changes the dataset (the script's `data` and the
\* memoised frame), and a rerun under the filter specification of the first
\* run gives the subset of the first run again, whatever specifications were
\* applied in between.
C9_DatasetUntouchedAndReplay ==
    [][pc = "idle" =>
        /\ data' = data
        /\ cache' = cache
        /\ CurrentSpec' = first_pass.spec => filtered' = first_pass.subset]_vars

\* Back on the first specification after a run under another one.
C9_Witness ==
    /\ pc = "idle"
    /\ first_pass.strayed
    /\ CurrentSpec = first_pass.spec
    /\ filtered = first_pass.subset
    /\ filtered # <<>>
    /\ Len(filtered) < Len(data)

\* C10: load_reviews keeps every input row, in order; helpful_votes is never
\* null (0 when missing or unparseable), published_platform and type are
\* never null ("Unknown" when absent), and an unparseable published_date or
\* rating becomes null with no exception.
C10_NormalizationKeepsRows ==
    pc = "loaded" =>
        /\ exception = "none"
        /\ Len(data) = Len(file.rows)
        /\ \A i \in 1..Len(data) :
            LET raw == file.rows[i]
                row == data[i]
            IN  /\ row.idx = i
                /\ row.helpful_votes # NaN
                /\ row.helpful_votes = IF raw.helpful_votes >= 0 THEN raw.helpful_votes ELSE 0
                /\ row.published_platform # NullStr
                /\ row.published_platform =
                    IF raw.published_platform = NullStr THEN "Unknown"
                    ELSE raw.published_platform
                /\ row.type # NullStr
                /\ row.type = IF raw.type = NullStr THEN "Unknown" ELSE raw.type
                /\ raw.published_date \in {BAD, MISSING} => row.published_date = NaT
                /\ raw.published_date >= 0 => row.published_date = raw.published_date
                /\ raw.rating \in {BAD, MISSING} => row.rating = NaN
                /\ raw.rating >= 0 => row.rating = raw.rating

\* A loaded row whose date and rating could not be parsed, with no votes,
\* platform or type.
C10_Witness ==
    /\ pc = "loaded"
    /\ \E i \in 1..Len(data) :
        /\ file.rows[i].published_date = BAD
        /\ file.rows[i].rating = BAD
        /\ file.rows[i].helpful_votes = BAD
        /\ file.rows[i].published_platform = NullStr
        /\ file.rows[i].type = NullStr
        /\ data[i].helpful_votes = 0
        /\ data[i].type = "Unknown"

====
